---- MODULE Spec2Model ----
(***************************************************************************)
(* Model of ivre/db/elastic.py: the Elasticsearch backend of IVRE.         *)
(*                                                                         *)
(*  - query values (elasticsearch_dsl Q objects) and their evaluation by   *)
(*    the engine on host documents with nested ports / ports.scripts;      *)
(*  - the search* predicate builders;                                      *)
(*  - the record store (store_host, get, remove, store_or_merge_host);     *)
(*  - _create_mappings;                                                    *)
(*  - the composite-aggregation generators distinct and getlocations;      *)
(*  - topvalues;                                                           *)
(*  - the db_client property under concurrent callers.                     *)
(***************************************************************************)
EXTENDS Integers, Sequences, FiniteSets, TLC

VARIABLES
    \* ---- record store (ElasticDBActive / ElasticDBView instance)
    cls,        \* class of the instance
    index,      \* documents held by the engine: [id, body]
    nextid,     \* next id the engine assigns
    given,      \* id -> the host as the caller passed it to store_host
    fetched,    \* records produced by the last get()
    lastcall,   \* what the last operation did
    \* ---- predicate builders
    call,       \* the builder call: [fn, a, name, output, values, neg]
    doc,        \* the document the predicate is evaluated on
    res,        \* what the call returned: [status, q]
    spc,        \* "init" | "called"
    \* ---- _create_mappings
    nested,     \* the list of nested paths it is called with
    todo,       \* the declarations still to process: <<type, path>>
    mres,       \* the mapping built so far (res)
    mpc,        \* "nested" | "typed" | "done"
    \* ---- distinct / getlocations (one generator and its consumer)
    acall,      \* the call: [fn, field, flt]
    py,         \* the interpreter's major version: 2 or 3
    nkeys,      \* number of distinct bucket keys among the matching documents
    policy,     \* when the engine sends an after_key with its last buckets
    gpc,        \* "created" | "running" | "suspended" | "done" | "abandoned"
    at,         \* where the running generator is: "search" | "buckets"
    gflt,       \* the generator's flt
    query,      \* the generator's composite query: [size, after]
    result,     \* the last response: [lo, hi, has_after, after_key]
    bi,         \* the next bucket of result to yield
    requests,   \* the page requests issued, each with its reply's after_key
    yielded,    \* the values the consumer got
    \* ---- topvalues (one generator, run to its end)
    tcall,      \* the call: [field, flt, topnbr]
    tdocs,      \* the host documents of the index
    tbody,      \* the body of the search request: [query, terms, size, nested]
    tbuckets,   \* the buckets of the response
    tout,       \* the entries yielded: [_id, count]
    tpc,        \* "created" | "suspended" | "done"
    \* ---- db_client (callers sharing one ElasticDB instance)
    _db_client, \* the instance attribute: 0 when absent, else the handle it holds
    handles,    \* number of Elasticsearch handles constructed so far
    ncallers,   \* number of callers sharing the instance
    cpc,        \* caller -> "idle" | "except" | "assign" | "return"
    made,       \* caller -> the handle its constructor call returned (0: none)
    got         \* caller -> the handles its accesses returned, in order

storeVars == <<cls, index, nextid, given, fetched, lastcall>>
searchVars == <<call, doc, res, spc>>
mapVars == <<nested, todo, mres, mpc>>
aggVars == <<acall, py, nkeys, policy, gpc, at, gflt, query, result, bi, requests, yielded>>
topVars == <<tcall, tdocs, tbody, tbuckets, tout, tpc>>
clientVars == <<_db_client, handles, ncallers, cpc, made, got>>
vars == <<cls, index, nextid, given, fetched, lastcall, call, doc, res, spc,
          nested, todo, mres, mpc,
          acall, py, nkeys, policy, gpc, at, gflt, query, result, bi, requests, yielded,
          tcall, tdocs, tbody, tbuckets, tout, tpc,
          _db_client, handles, ncallers, cpc, made, got>>

\* what an operation of one component leaves alone
StoreOnly == UNCHANGED <<searchVars, mapVars, aggVars, topVars, clientVars>>
SearchOnly == UNCHANGED <<storeVars, mapVars, aggVars, topVars, clientVars>>
MapOnly == UNCHANGED <<storeVars, searchVars, aggVars, topVars, clientVars>>
AggOnly == UNCHANGED <<storeVars, searchVars, mapVars, topVars, clientVars>>
TopOnly == UNCHANGED <<storeVars, searchVars, mapVars, aggVars, clientVars>>
ClientOnly == UNCHANGED <<storeVars, searchVars, mapVars, aggVars, topVars>>

(***************************************************************************)
(* Generic helpers                                                         *)
(***************************************************************************)
Range(s) == {s[i] : i \in DOMAIN s}

\* s[::-1]
Reverse(s) == [i \in 1..Len(s) |-> s[Len(s) + 1 - i]]

RECURSIVE SetToSeq(_)
SetToSeq(S) == IF S = {} THEN <<>>
               ELSE LET x == CHOOSE y \in S : TRUE IN <<x>> \o SetToSeq(S \ {x})

SubsetsUpTo(S, n) == {T \in SUBSET S : Cardinality(T) <= n}

(***************************************************************************)
(* Query values: elasticsearch_dsl Q(...) objects, in one record shape.    *)
(***************************************************************************)
MkQ(op, field, vals, must, must_not) ==
    [op |-> op, field |-> field, vals |-> vals, must |-> must, must_not |-> must_not]

\* Q()
MatchAll == MkQ("match_all", "", {}, <<>>, <<>>)
\* Q('match', field=value)
QMatch(field, value) == MkQ("match", field, {value}, <<>>, <<>>)
\* Q('terms', field=[values])
QTerms(field, values) == MkQ("terms", field, values, <<>>, <<>>)
\* Q('regexp', field=pattern); a pattern is the set of strings it matches whole
QRegexp(field, pattern) == MkQ("regexp", field, pattern, <<>>, <<>>)
\* Q('exists', field=field)
QExists(field) == MkQ("exists", field, {}, <<>>, <<>>)
\* Q('nested', path=path, query=query)
QNested(path, q) == MkQ("nested", path, {}, <<q>>, <<>>)
QBool(must, must_not) == MkQ("bool", "", {}, must, must_not)

\* ~res on a non-bool query: Bool(must_not=[res])
QNot(q) == QBool(<<>>, <<q>>)

\* cond1 & cond2: MatchAll is the identity, bool queries merge their clauses
QAnd(a, b) ==
    IF a.op = "match_all" THEN b
    ELSE IF b.op = "match_all" THEN a
    ELSE IF a.op = "bool" /\ b.op = "bool"
         THEN QBool(a.must \o b.must, a.must_not \o b.must_not)
    ELSE IF a.op = "bool" THEN QBool(Append(a.must, b), a.must_not)
    ELSE IF b.op = "bool" THEN QBool(Append(b.must, a), b.must_not)
    ELSE QBool(<<a, b>>, <<>>)

_flt_and(cond1, cond2) == QAnd(cond1, cond2)

flt_empty == MatchAll

(***************************************************************************)
(* Documents.  A host is                                                   *)
(*   [_id, addr, starttime, infos: [country_code, as_num, as_name, coordinates],*)
(*    ports: <<[protocol, port, state_state, service_name, scripts: <<     *)
(*       [id, output, key, scalar, elems: <<[name, value]>>] >>] >>]       *)
(* A missing scalar field is the empty set, missing coordinates are <<>>,  *)
(* and _id = 0 is a host that carries no _id.                              *)
(* The structured output of a script is stored under script[key]: either   *)
(* a string (scalar) or a list of {name, value} objects (elems).           *)
(***************************************************************************)
MkInfos(cc, asnum, asname, coords) ==
    [country_code |-> cc, as_num |-> asnum, as_name |-> asname, coordinates |-> coords]

NoInfos == MkInfos({}, {}, {}, <<>>)

MkHost(id, addr, starttime, infos, ports) ==
    [_id |-> id, addr |-> addr, starttime |-> starttime, infos |-> infos, ports |-> ports]

MkPort(protocol, port, state, service, scripts) ==
    [protocol |-> protocol, port |-> port, state_state |-> state,
     service_name |-> service, scripts |-> scripts]

MkScript(id, output, key, scalar, elems) ==
    [id |-> id, output |-> output, key |-> key, scalar |-> scalar, elems |-> elems]

(***************************************************************************)
(* The engine's evaluation of a query on a document.  "ports" and          *)
(* "ports.scripts" are mapped as nested: their elements are documents of   *)
(* their own, reached only through a nested query on their path.           *)
(***************************************************************************)
FieldValues(lvl, ctx, field) ==
    IF lvl = "" THEN
        CASE field = "_id" -> {ctx._id}
          [] field = "addr" -> {ctx.addr}
          [] field = "starttime" -> ctx.starttime
          [] field = "infos.country_code" -> ctx.infos.country_code
          [] field = "infos.as_num" -> ctx.infos.as_num
          [] field = "infos.as_name" -> ctx.infos.as_name
          [] field = "infos.coordinates" ->
                IF ctx.infos.coordinates = <<>> THEN {} ELSE {ctx.infos.coordinates}
          [] OTHER -> {}
    ELSE IF lvl = "ports" THEN
        CASE field = "ports.port" -> {ctx.port}
          [] field = "ports.protocol" -> {ctx.protocol}
          [] field = "ports.state_state" -> ctx.state_state
          [] field = "ports.service_name" -> ctx.service_name
          [] OTHER -> {}
    ELSE
        CASE field = "ports.scripts" -> {ctx.id}
          [] field = "ports.scripts.id" -> {ctx.id}
          [] field = "ports.scripts.output" -> {ctx.output}
          [] field = "ports.scripts." \o ctx.key -> ctx.scalar
          [] field = "ports.scripts." \o ctx.key \o ".name" ->
                {e.name : e \in Range(ctx.elems)}
          [] field = "ports.scripts." \o ctx.key \o ".value" ->
                {e.value : e \in Range(ctx.elems)}
          [] OTHER -> {}

Children(lvl, ctx, path) ==
    IF lvl = "" /\ path = "ports" THEN Range(ctx.ports)
    ELSE IF lvl = "ports" /\ path = "ports.scripts" THEN Range(ctx.scripts)
    ELSE {}

RECURSIVE Eval(_, _, _)
Eval(q, lvl, ctx) ==
    CASE q.op = "match_all" -> TRUE
      [] q.op \in {"match", "terms", "regexp"} ->
            q.vals \cap FieldValues(lvl, ctx, q.field) # {}
      [] q.op = "exists" -> FieldValues(lvl, ctx, q.field) # {}
      [] q.op = "nested" ->
            \E c \in Children(lvl, ctx, q.field) : Eval(q.must[1], q.field, c)
      [] q.op = "bool" ->
            /\ \A i \in DOMAIN q.must : Eval(q.must[i], lvl, ctx)
            /\ \A i \in DOMAIN q.must_not : ~Eval(q.must_not[i], lvl, ctx)

\* whether the query matches the host document
Matches(q, host) == Eval(q, "", host)

(***************************************************************************)
(* Python argument values of the builders.                                 *)
(***************************************************************************)
None == [kind |-> "none"]
Str(s) == [kind |-> "str", s |-> s]
\* a str given by its characters
Chars(c) == [kind |-> "chars", c |-> c]
\* an int
Num(n) == [kind |-> "int", n |-> n]
\* a compiled regular expression (utils.REGEXP_T); pattern: the strings it matches
Re(pattern) == [kind |-> "re", pattern |-> pattern]
\* a list of strings
List(l) == [kind |-> "list", l |-> l]
\* a list (or other iterable) of argument values
Iter(items) == [kind |-> "list", items |-> items]
\* a dict, as the sequence of its items <<field, value>>
Dict(items) == [kind |-> "dict", items |-> items]
\* an elasticsearch_dsl Query given as is
Qry(q) == [kind |-> "query", q |-> q]

Ok(q) == [status |-> "ok", q |-> q]
Raise(exc) == [status |-> exc, q |-> MatchAll]

(***************************************************************************)
(* Decimal strings, as sequences of characters: str(int) and int(str).     *)
(***************************************************************************)
Digits == <<"0", "1", "2", "3", "4", "5", "6", "7", "8", "9">>

DigitVal(c) == (CHOOSE i \in DOMAIN Digits : Digits[i] = c) - 1

IsDigit(c) == \E i \in DOMAIN Digits : Digits[i] = c

RECURSIVE NatToStr(_)
NatToStr(n) == IF n < 10 THEN <<Digits[n + 1]>>
               ELSE NatToStr(n \div 10) \o <<Digits[(n % 10) + 1]>>

\* str(n), also what painless gives for '' + n
IntToStr(n) == IF n < 0 THEN <<"-">> \o NatToStr(-n) ELSE NatToStr(n)

RECURSIVE StrToNat(_)
StrToNat(s) == IF s = <<>> THEN 0
               ELSE 10 * StrToNat(SubSeq(s, 1, Len(s) - 1)) + DigitVal(s[Len(s)])

IsIntStr(s) ==
    LET d == IF s # <<>> /\ s[1] = "-" THEN Tail(s) ELSE s
    IN d # <<>> /\ \A i \in DOMAIN d : IsDigit(d[i])

\* int(s) for a string accepted by int()
StrToInt(s) == IF s[1] = "-" THEN -StrToNat(Tail(s)) ELSE StrToNat(s)

(***************************************************************************)
(* The predicate builders.  Each returns Ok(query) or the exception.       *)
(***************************************************************************)
\* utils.regexp2pattern keeps the language; flags only produce a warning
_get_pattern(regexp) == regexp.pattern

searchnonexistent == Ok(QMatch("_id", 0))

searchhost(addr, neg) == Ok(QMatch("addr", addr.s))

searchhaslocation(neg) ==
    LET r == QExists("infos.coordinates")
    IN IF neg THEN Ok(QNot(r)) ELSE Ok(r)

\* utils.country_unalias
country_unalias(country) == country

searchcountry(country0, neg) ==
    LET country == country_unalias(country0)
        r == IF country.kind = "list"
             THEN QTerms("infos.country_code", Range(country.l))
             ELSE QMatch("infos.country_code", country.s)
    IN IF neg THEN Ok(QNot(r)) ELSE Ok(r)

\* int(val)
PyInt(val) == IF val.kind = "int" THEN val.n ELSE StrToInt(val.c)

PyIntOk(val) == val.kind = "int" \/ (val.kind = "chars" /\ IsIntStr(val.c))

searchasnum(asnum, neg) ==
    IF asnum.kind = "list"
    THEN IF \E i \in DOMAIN asnum.items : ~PyIntOk(asnum.items[i])
         THEN Raise("ValueError")
         ELSE LET r == QTerms("infos.as_num",
                              {PyInt(asnum.items[i]) : i \in DOMAIN asnum.items})
              IN IF neg THEN Ok(QNot(r)) ELSE Ok(r)
    ELSE IF ~PyIntOk(asnum)
         THEN Raise("ValueError")
         ELSE LET r == QMatch("infos.as_num", PyInt(asnum))
              IN IF neg THEN Ok(QNot(r)) ELSE Ok(r)

searchasname(asname, neg) ==
    LET r == IF asname.kind = "re"
             THEN QRegexp("infos.as_name", _get_pattern(asname))
             ELSE QMatch("infos.as_name", asname.s)
    IN IF neg THEN Ok(QNot(r)) ELSE Ok(r)

\* xmlnmap.ALIASES_TABLE_ELEMS.get(name, name)
ALIASES_TABLE_ELEMS(name) == IF name = "smb-ls" THEN "ls" ELSE name

\* one entry of req: a (kind, field, value) triple, or a Query given as values
Sub(kind, field, value) == [isq |-> FALSE, kind |-> kind, field |-> field, value |-> value, q |-> MatchAll]
SubQ(q) == [isq |-> TRUE, kind |-> "", field |-> "", value |-> {}, q |-> q]

\* ("regexp", field, pattern) or ("match", field, value)
ReqOf(field, arg) ==
    IF arg.kind = "re" THEN Sub("regexp", field, _get_pattern(arg))
    ELSE Sub("match", field, {arg.s})

\* the entries the values argument adds to req (name is not None)
ReqValues(name, values) ==
    LET subfield == IF name.kind = "str" THEN ALIASES_TABLE_ELEMS(name.s)
                    ELSE "<regexp>"
    IN CASE values.kind = "query" -> <<SubQ(values.q)>>
         [] values.kind \in {"str", "re"} -> <<ReqOf(subfield, values)>>
         [] values.kind = "dict" ->
              [i \in DOMAIN values.items |->
                  ReqOf(subfield \o "." \o values.items[i][1], values.items[i][2])]

\* Q(subreq[0], **{"ports.scripts.%s" % subreq[1]: subreq[2]})
SubreqQ(subreq) ==
    IF subreq.isq THEN subreq.q
    ELSE MkQ(subreq.kind, "ports.scripts." \o subreq.field, subreq.value, <<>>, <<>>)

\* query = Q(); for subreq in req: query &= ...
RECURSIVE AndAll(_, _)
AndAll(q, req) ==
    IF req = <<>> THEN q
    ELSE AndAll(QAnd(q, SubreqQ(Head(req))), Tail(req))

\* mutant: every entry of req wrapped in nested queries of its own
ScriptQuery_PerEntry(req) ==
    IF req = <<>>
    THEN QNested("ports", QNested("ports.scripts", QExists("ports.scripts")))
    ELSE QBool([i \in DOMAIN req |->
                   QNested("ports", QNested("ports.scripts", SubreqQ(req[i])))], <<>>)

\* the query searchscript wraps in the two nested levels
ScriptQuery(req) ==
    IF req = <<>>
    THEN QNested("ports", QNested("ports.scripts", QExists("ports.scripts")))
    ELSE QNested("ports", QNested("ports.scripts", AndAll(MatchAll, req)))

\* mutant: the check is made only when nothing else was asked for
ValuesNeedName_EmptyReq(name, output, values) ==
    values.kind # "none" /\ name.kind = "none" /\ output.kind = "none"

\* if values is not None and name is None: raise TypeError
ValuesNeedName(name, output, values) == values.kind # "none" /\ name.kind = "none"

searchscript(name, output, values, neg) ==
    LET req1 == IF name.kind # "none" THEN <<ReqOf("id", name)>> ELSE <<>>
        req2 == IF output.kind # "none" THEN <<ReqOf("output", output)>> ELSE <<>>
    IN IF ValuesNeedName(name, output, values)
       THEN Raise("TypeError")
       ELSE LET req3 == IF values.kind # "none" THEN ReqValues(name, values) ELSE <<>>
                r == ScriptQuery(req1 \o req2 \o req3)
            IN IF neg THEN Ok(QNot(r)) ELSE Ok(r)

(***************************************************************************)
(* Bounds and input universes                                              *)
(***************************************************************************)
MaxPorts == 2
MaxScripts == 2

Addrs == {"1.2.3.4", "5.6.7.8"}

InfosU == {NoInfos,
           MkInfos({"FR"}, {15169}, {"GOOGLE"}, <<48, 2>>),
           MkInfos({"US"}, {8075}, {"MICROSOFT"}, <<>>)}

ScriptsU ==
    {MkScript("http-headers", "x", "http-headers", {}, <<[name |-> "server", value |-> "nginx"]>>),
     MkScript("http-headers", "y", "http-headers", {}, <<[name |-> "via", value |-> "proxy"]>>),
     MkScript("smb-ls", "x", "ls", {"vol"}, <<>>),
     MkScript("smb-ls", "y", "ls", {}, <<[name |-> "server", value |-> "proxy"]>>)}

ScriptPortsU ==
    {MkPort("tcp", 80, {"open"}, {"http"}, SetToSeq(S)) : S \in SubsetsUpTo(ScriptsU, MaxScripts)}

\* the documents the predicates are evaluated on
DocsU ==
    {MkHost(0, a, {}, i, <<>>) : a \in Addrs, i \in InfosU}
    \cup {MkHost(0, "1.2.3.4", {}, NoInfos, SetToSeq(P)) : P \in SubsetsUpTo(ScriptPortsU, MaxPorts)}

MkCall(fn, a, name, output, values, neg) ==
    [fn |-> fn, a |-> a, name |-> name, output |-> output, values |-> values, neg |-> neg]

NamesU == {None, Str("http-headers"), Str("smb-ls"), Re({"http-headers", "smb-ls"})}
OutputsU == {None, Str("x"), Re({"x", "y"})}
ValuesU == {None, Str("vol"), Re({"vol"}),
            Dict(<<<<"name", Str("server")>>>>),
            Dict(<<<<"name", Str("server")>>, <<"value", Re({"proxy"})>>>>),
            Qry(QMatch("ports.scripts.output", "y"))}

CallsU ==
    {MkCall("searchnonexistent", None, None, None, None, FALSE)}
    \cup {MkCall("searchhost", Str(a), None, None, None, n) : a \in Addrs, n \in BOOLEAN}
    \cup {MkCall("searchhaslocation", None, None, None, None, n) : n \in BOOLEAN}
    \cup {MkCall("searchcountry", c, None, None, None, n) :
            c \in {Str("FR"), Str("US"), List(<<"FR", "US">>), List(<<"US">>)}, n \in BOOLEAN}
    \cup {MkCall("searchasnum", c, None, None, None, n) :
            c \in {Num(15169), Chars(<<"8", "0", "7", "5">>), Chars(<<"A", "S">>),
                   Iter(<<Num(15169), Chars(<<"8", "0", "7", "5">>)>>)}, n \in BOOLEAN}
    \cup {MkCall("searchasname", c, None, None, None, n) :
            c \in {Str("GOOGLE"), Re({"GOOGLE", "MICROSOFT"})}, n \in BOOLEAN}
    \cup {MkCall("searchscript", None, nm, o, v, n) :
            nm \in NamesU, o \in OutputsU, v \in ValuesU, n \in BOOLEAN}

(***************************************************************************)
(* Idle values of each group of variables                                  *)
(***************************************************************************)
NoCall == [op |-> "", raised |-> "", merge_tried |-> FALSE, merged |-> FALSE,
           stores |-> 0, before |-> 0]

StoreIdle ==
    /\ cls = "ElasticDBActive"
    /\ index = {}
    /\ nextid = 1
    /\ given = <<>>
    /\ fetched = {}
    /\ lastcall = NoCall

SearchIdle ==
    /\ call = MkCall("", None, None, None, None, FALSE)
    /\ doc = MkHost(0, "", {}, NoInfos, <<>>)
    /\ res = Ok(MatchAll)
    /\ spc = "idle"

MapIdle ==
    /\ nested = <<>>
    /\ todo = <<>>
    /\ mres = {}
    /\ mpc = "idle"

NoResult == [lo |-> 1, hi |-> 0, has_after |-> FALSE, after_key |-> 0]

AggIdle ==
    /\ acall = [fn |-> "", field |-> "", flt |-> None]
    /\ py = 3
    /\ nkeys = 0
    /\ policy = ""
    /\ gpc = "idle"
    /\ at = ""
    /\ gflt = MatchAll
    /\ query = [size |-> 0, after |-> 0]
    /\ result = NoResult
    /\ bi = 1
    /\ requests = <<>>
    /\ yielded = <<>>

NoBody == [query |-> MatchAll, terms |-> [kind |-> "", name |-> "", param |-> <<>>],
           sized |-> FALSE, size |-> 0, nested |-> FALSE]

TopIdle ==
    /\ tcall = [field |-> [base |-> "", sep |-> "", arg |-> ""], flt |-> None, topnbr |-> 0]
    /\ tdocs = {}
    /\ tbody = NoBody
    /\ tbuckets = <<>>
    /\ tout = <<>>
    /\ tpc = "idle"

ClientIdle ==
    /\ _db_client = 0
    /\ handles = 0
    /\ ncallers = 0
    /\ cpc = <<>>
    /\ made = <<>>
    /\ got = <<>>

(***************************************************************************)
(* SpecSearch: one builder call, whose result is evaluated on one document *)
(***************************************************************************)
InitSearch ==
    /\ StoreIdle
    /\ MapIdle
    /\ AggIdle
    /\ TopIdle
    /\ ClientIdle
    /\ call \in CallsU
    /\ doc \in DocsU
    /\ res = Ok(MatchAll)
    /\ spc = "init"

Returns(r) ==
    /\ spc = "init"
    /\ res' = r
    /\ spc' = "called"
    /\ UNCHANGED <<call, doc>>
    /\ SearchOnly

Call_searchnonexistent ==
    call.fn = "searchnonexistent" /\ Returns(searchnonexistent)

Call_searchhost ==
    call.fn = "searchhost" /\ Returns(searchhost(call.a, call.neg))

Call_searchhaslocation ==
    call.fn = "searchhaslocation" /\ Returns(searchhaslocation(call.neg))

Call_searchcountry ==
    call.fn = "searchcountry" /\ Returns(searchcountry(call.a, call.neg))

Call_searchasnum ==
    call.fn = "searchasnum" /\ Returns(searchasnum(call.a, call.neg))

Call_searchasname ==
    call.fn = "searchasname" /\ Returns(searchasname(call.a, call.neg))

Call_searchscript ==
    call.fn = "searchscript"
    /\ Returns(searchscript(call.name, call.output, call.values, call.neg))

NextSearch ==
    \/ Call_searchnonexistent
    \/ Call_searchhost
    \/ Call_searchhaslocation
    \/ Call_searchcountry
    \/ Call_searchasnum
    \/ Call_searchasname
    \/ Call_searchscript

SpecSearch == InitSearch /\ [][NextSearch]_vars

(***************************************************************************)
(* Spec: the record store.  One instance of ElasticDBActive or             *)
(* ElasticDBView, and the documents the engine holds for its index.        *)
(***************************************************************************)
MaxDocs == 2

CoordsU == {<<>>, <<48, 2>>, <<2, 48>>, <<7, 7>>}

\* the hosts callers store: starttime is an epoch, in seconds
StoreHostsU ==
    {MkHost(0, a, IF a = "1.2.3.4" THEN {1000} ELSE {}, MkInfos({}, {}, {}, c), <<>>) :
        a \in Addrs, c \in CoordsU}

\* the filters callers query with
StoreFiltersU ==
    {flt_empty, searchhaslocation(FALSE).q, searchhaslocation(TRUE).q}
    \cup {searchhost(Str(a), FALSE).q : a \in Addrs}

\* utils.all2datetime
all2datetime(v) == [datetime |-> v]

\* store_host: the body sent to the engine
StoreBody(host) ==
    IF host.infos.coordinates # <<>>
    THEN [host EXCEPT !.infos.coordinates = Reverse(@)]
    ELSE host

\* mutant: get() hands the stored coordinates over as they are
GetHost_NoFlip(rec) ==
    [rec EXCEPT !.starttime = {all2datetime(v) : v \in @}]

\* get: the host yielded for one scanned record
GetHost(rec) ==
    LET host == IF rec.infos.coordinates # <<>>
                THEN [rec EXCEPT !.infos.coordinates = Reverse(@)]
                ELSE rec
    IN [host EXCEPT !.starttime = {all2datetime(v) : v \in @}]

\* DBView.merge_host: whether a record of the same address exists (it is
\* merged in place)
merge_host(host) == \E d \in index : d.addr = host.addr

\* mutant: store_host is called whatever merge_host returned
StoreAfterMerge_Always(merged) == TRUE

\* if not self.merge_host(host): self.store_host(host)
StoreAfterMerge(merged) == ~merged

Did(op, raised, tried, merged, stores) ==
    [op |-> op, raised |-> raised, merge_tried |-> tried, merged |-> merged,
     stores |-> stores, before |-> Cardinality(index)]

Init ==
    /\ cls \in {"ElasticDBActive", "ElasticDBView"}
    /\ index = {}
    /\ nextid = 1
    /\ given = <<>>
    /\ fetched = {}
    /\ lastcall = NoCall
    /\ SearchIdle
    /\ MapIdle
    /\ AggIdle
    /\ TopIdle
    /\ ClientIdle

\* db_client.index(index=..., body=host): the engine assigns the id
IndexBody(host) ==
    /\ index' = index \cup {[StoreBody(host) EXCEPT !._id = nextid]}
    /\ nextid' = nextid + 1
    /\ given' = Append(given, host)

store_host ==
    \E host \in StoreHostsU :
        /\ nextid <= MaxDocs
        /\ IndexBody(host)
        /\ lastcall' = Did("store_host", "", FALSE, FALSE, 1)
        /\ UNCHANGED <<cls, fetched>>
        /\ StoreOnly

get ==
    \E flt \in StoreFiltersU :
        /\ fetched' = {GetHost(d) : d \in {e \in index : Matches(flt, e)}}
        /\ lastcall' = Did("get", "", FALSE, FALSE, 0)
        /\ UNCHANGED <<cls, index, nextid, given>>
        /\ StoreOnly

remove ==
    \E host \in fetched :
        /\ index' = {d \in index : d._id # host._id}
        /\ lastcall' = Did("remove", "", FALSE, FALSE, 0)
        /\ UNCHANGED <<cls, nextid, given, fetched>>
        /\ StoreOnly

\* ElasticDBActive.store_or_merge_host
store_or_merge_host_Active ==
    \E host \in StoreHostsU :
        /\ cls = "ElasticDBActive"
        /\ lastcall' = Did("store_or_merge_host", "NotImplementedError", FALSE, FALSE, 0)
        /\ UNCHANGED <<cls, index, nextid, given, fetched>>
        /\ StoreOnly

\* ElasticDBView.store_or_merge_host
store_or_merge_host_View ==
    \E host \in StoreHostsU :
        /\ cls = "ElasticDBView"
        /\ LET merged == merge_host(host)
           IN /\ StoreAfterMerge(merged) => nextid <= MaxDocs
              /\ IF StoreAfterMerge(merged)
                 THEN IndexBody(host)
                 ELSE UNCHANGED <<index, nextid, given>>
              /\ lastcall' = Did("store_or_merge_host", "", TRUE, merged,
                                 IF StoreAfterMerge(merged) THEN 1 ELSE 0)
        /\ UNCHANGED <<cls, fetched>>
        /\ StoreOnly

Next ==
    \/ store_host
    \/ get
    \/ remove
    \/ store_or_merge_host_Active
    \/ store_or_merge_host_View

Spec == Init /\ [][Next]_vars

(***************************************************************************)
(* Claims on the record store (Spec)                                       *)
(***************************************************************************)
\* C1: a record stored with a coordinate pair (lat, lon) comes back from get
\* with the same pair in the same order, and the stored document holds the
\* pair reversed.
C1_CoordinatesRoundTrip ==
    /\ \A r \in fetched :
          r.infos.coordinates = given[r._id].infos.coordinates
    /\ \A d \in index :
          given[d._id].infos.coordinates # <<>> =>
             /\ d.infos.coordinates[1] = given[d._id].infos.coordinates[2]
             /\ d.infos.coordinates[2] = given[d._id].infos.coordinates[1]

C1_Witness ==
    \E r \in fetched : \E d \in index :
        /\ d._id = r._id
        /\ given[r._id].infos.coordinates = <<48, 2>>
        /\ r.infos.coordinates = <<48, 2>>
        /\ d.infos.coordinates = <<2, 48>>

\* C9 as claimed: on every class, store_or_merge_host first attempts the
\* merge, stores exactly one new document when nothing was merged, and
\* stores nothing when the merge succeeded.
C9_MergeThenStore ==
    lastcall.op = "store_or_merge_host" =>
        /\ lastcall.raised = ""
        /\ lastcall.merge_tried
        /\ lastcall.merged =>
              lastcall.stores = 0 /\ Cardinality(index) = lastcall.before
        /\ ~lastcall.merged =>
              lastcall.stores = 1 /\ Cardinality(index) = lastcall.before + 1

\* C9 as amended: that holds of ElasticDBView; ElasticDBActive raises
\* NotImplementedError, attempts no merge and stores nothing.
C9_MergeThenStoreView ==
    lastcall.op = "store_or_merge_host" =>
        /\ cls = "ElasticDBView" =>
              /\ lastcall.raised = ""
              /\ lastcall.merge_tried
              /\ lastcall.merged =>
                    lastcall.stores = 0 /\ Cardinality(index) = lastcall.before
              /\ ~lastcall.merged =>
                    lastcall.stores = 1 /\ Cardinality(index) = lastcall.before + 1
        /\ cls = "ElasticDBActive" =>
              /\ lastcall.raised = "NotImplementedError"
              /\ ~lastcall.merge_tried
              /\ lastcall.stores = 0
              /\ Cardinality(index) = lastcall.before

C9_Witness ==
    /\ cls = "ElasticDBView"
    /\ lastcall.op = "store_or_merge_host"
    /\ lastcall.merged
    /\ lastcall.stores = 0
    /\ Cardinality(index) = 1

(***************************************************************************)
(* SpecMap: _create_mappings.  A field path is the sequence of its dotted  *)
(* segments.  The mapping (a dict of dicts) is the set of its entries      *)
(*   [loc, key, type, props]                                               *)
(* where loc is the sequence of the keys of the enclosing entries (each    *)
(* step is one ["properties"]), key the entry's key in that dict, type its *)
(* "type" and props whether the entry has a "properties" dict.             *)
(***************************************************************************)
MaxNested == 3

IsPrefix(a, b) == Len(a) <= Len(b) /\ SubSeq(b, 1, Len(a)) = a

IsProperPrefix(a, b) == Len(a) < Len(b) /\ SubSeq(b, 1, Len(a)) = a

\* the nested paths a caller may declare
NestedPathsU == {<<"ports">>, <<"ports", "scripts">>, <<"ports", "screenwords">>,
                 <<"traces">>, <<"traces", "hops">>}

\* the lists without repetition of the elements of S
PermsOf(S) ==
    {p \in [1..Cardinality(S) -> S] : \A i, j \in 1..Cardinality(S) : p[i] = p[j] => i = j}

NestedListsU == UNION {PermsOf(S) : S \in SubsetsUpTo(NestedPathsU, MaxNested)}

\* DBActive.ipaddr_fields
ipaddr_fields == <<<<"addr">>, <<"traces", "hops", "ipaddr">>>>

\* DBActive.datetime_fields
datetime_fields == <<<<"starttime">>, <<"endtime">>>>

\* the typed field lists of ElasticDBActive.mappings
all_mappings(nested_fields) ==
    <<<<"nested", nested_fields>>,
      <<"ip", ipaddr_fields>>,
      <<"date", datetime_fields>>,
      <<"geo_point", <<<<"infos", "coordinates">>>>>>>>

MkEntry(loc, key, type, props) == [loc |-> loc, key |-> key, type |-> type, props |-> props]

\* cur.get(subkey, {}).get('type') == 'nested', cur being the dict at loc
IsNested(tree, loc, subkey) ==
    \E e \in tree : e.loc = loc /\ e.key = subkey /\ e.type = "nested"

\* mutant: cur = cur[subkey]['properties'] = {}
Descend_Fresh(tree, loc, subkey) ==
    {IF e.loc = loc /\ e.key = subkey THEN [e EXCEPT !.props = TRUE] ELSE e :
        e \in {f \in tree : ~IsPrefix(Append(loc, subkey), f.loc)}}

\* cur = cur[subkey].setdefault('properties', {})
Descend(tree, loc, subkey) ==
    {IF e.loc = loc /\ e.key = subkey THEN [e EXCEPT !.props = TRUE] ELSE e : e \in tree}

\* "%s.%s" % (curkey, subkey) when curkey is not None ("" stands for None)
JoinKey(curkey, subkey) == IF curkey # "" THEN curkey \o "." \o subkey ELSE subkey

\* for subkey in fld.split('.')[:-1]: ...
RECURSIVE Walk(_, _, _, _)
Walk(tree, loc, curkey, segs) ==
    IF segs = <<>> THEN [tree |-> tree, loc |-> loc, curkey |-> curkey]
    ELSE LET subkey == JoinKey(curkey, Head(segs))
         IN IF IsNested(tree, loc, subkey)
            THEN Walk(Descend(tree, loc, subkey), Append(loc, subkey), "", Tail(segs))
            ELSE Walk(tree, loc, subkey, Tail(segs))

\* cur[subkey] = {"type": fldtype}: the entry and all it held are replaced
Assign(tree, loc, subkey, fldtype) ==
    {e \in tree : ~(e.loc = loc /\ e.key = subkey) /\ ~IsPrefix(Append(loc, subkey), e.loc)}
    \cup {MkEntry(loc, subkey, fldtype, FALSE)}

\* the body of the loops: one field declared
Declare(tree, fldtype, fld) ==
    LET w == Walk(tree, <<>>, "", SubSeq(fld, 1, Len(fld) - 1))
    IN Assign(w.tree, w.loc, JoinKey(w.curkey, fld[Len(fld)]), fldtype)

RECURSIVE Flatten(_)
Flatten(mappings) ==
    IF mappings = <<>> THEN <<>>
    ELSE [i \in DOMAIN Head(mappings)[2] |-> <<Head(mappings)[1], Head(mappings)[2][i]>>]
         \o Flatten(Tail(mappings))

\* the whole of _create_mappings on a list of declarations
RECURSIVE DeclareAll(_, _)
DeclareAll(tree, decls) ==
    IF decls = <<>> THEN tree
    ELSE DeclareAll(Declare(tree, Head(decls)[1], Head(decls)[2]), Tail(decls))

_create_mappings(nested_fields, mappings) ==
    DeclareAll(DeclareAll({}, [i \in DOMAIN nested_fields |-> <<"nested", nested_fields[i]>>]),
               Flatten(mappings))

InitMap ==
    /\ StoreIdle
    /\ SearchIdle
    /\ AggIdle
    /\ TopIdle
    /\ ClientIdle
    /\ nested \in NestedListsU
    /\ todo = nested
    /\ mres = {}
    /\ mpc = "nested"

\* for fld in nested: ... cur[subkey] = {"type": 'nested'}
declare_nested ==
    /\ mpc = "nested" /\ todo # <<>>
    /\ mres' = Declare(mres, "nested", Head(todo))
    /\ todo' = Tail(todo)
    /\ UNCHANGED <<nested, mpc>>
    /\ MapOnly

\* the first loop is over: for fldtype, fldnames in all_mappings
start_typed ==
    /\ mpc = "nested" /\ todo = <<>>
    /\ todo' = Flatten(all_mappings(nested))
    /\ mpc' = "typed"
    /\ UNCHANGED <<nested, mres>>
    /\ MapOnly

\* for fld in fldnames: ... cur[subkey] = {"type": fldtype}
declare_typed ==
    /\ mpc = "typed" /\ todo # <<>>
    /\ mres' = Declare(mres, Head(todo)[1], Head(todo)[2])
    /\ todo' = Tail(todo)
    /\ UNCHANGED <<nested, mpc>>
    /\ MapOnly

\* return res
return_mappings ==
    /\ mpc = "typed" /\ todo = <<>>
    /\ mpc' = "done"
    /\ UNCHANGED <<nested, todo, mres>>
    /\ MapOnly

NextMap ==
    \/ declare_nested
    \/ start_typed
    \/ declare_typed
    \/ return_mappings

SpecMap == InitMap /\ [][NextMap]_vars

(***************************************************************************)
(* Claims on _create_mappings (SpecMap)                                    *)
(***************************************************************************)
\* every path comes after the paths of the list it extends
AncestorFirst(l) ==
    \A i, j \in DOMAIN l : IsProperPrefix(l[i], l[j]) => i < j

PAGESIZE == 250

MaxSmall == 3
MaxPages == 2
MaxDup == 2

Min(a, b) == IF a <= b THEN a ELSE b

\* the numbers of distinct keys tried
KeyCountsU ==
    (0..MaxSmall) \cup {p * PAGESIZE + d : p \in 1..MaxPages, d \in {-1, 0, 1}}

AggCallsU ==
    {[fn |-> "distinct", field |-> f, flt |-> x] :
        f \in {"infos.as_num", "starttime", "infos.coordinates"},
        x \in {None, Qry(searchcountry(Str("FR"), FALSE).q)}}
    \cup {[fn |-> "getlocations", field |-> "coords", flt |-> x] :
        x \in {Qry(flt_empty), Qry(searchcountry(Str("FR"), FALSE).q)}}

\* the number of matching documents that share key i
DocCount(i) == 1 + (i % MaxDup)

\* the raw bucket key number i, as the engine sends it: a number for a plain
\* field, epoch milliseconds for a date field (1000, 1500, 2000, ...: two
\* keys per second), and the string "lat, lon" the painless script gives
\* for coordinates
RawKey(field, i) ==
    CASE field \in {"infos.coordinates", "coords"} ->
            IntToStr(i \div 10) \o <<",", " ">> \o IntToStr(i % 10)
      [] field = "starttime" -> 500 * (i + 1)
      [] OTHER -> i

\* the value of the field that key i stands for, as callers see values
FieldValue(field, i) ==
    CASE field \in {"infos.coordinates", "coords"} -> <<i \div 10, i % 10>>
      [] field = "starttime" ->
            all2datetime(<<(500 * (i + 1)) \div 1000, (500 * (i + 1)) % 1000>>)
      [] OTHER -> i

\* value.split(sep)
RECURSIVE Split(_, _)
Split(s, sep) ==
    IF Len(s) < Len(sep) THEN <<s>>
    ELSE IF \E i \in 1..(Len(s) - Len(sep) + 1) : SubSeq(s, i, i + Len(sep) - 1) = sep
         THEN LET i == CHOOSE j \in 1..(Len(s) - Len(sep) + 1) :
                         /\ SubSeq(s, j, j + Len(sep) - 1) = sep
                         /\ \A k \in 1..(j - 1) : SubSeq(s, k, k + Len(sep) - 1) # sep
              IN <<SubSeq(s, 1, i - 1)>> \o Split(SubSeq(s, i + Len(sep), Len(s)), sep)
         ELSE <<s>>

\* tuple(float(v) for v in value.split(', '))
ParseCoords(value) ==
    LET parts == Split(value, <<",", " ">>)
    IN [i \in DOMAIN parts |-> StrToInt(parts[i])]

\* value / 1000 on an int: <<whole, thousandths>>; Python 2 floors
PyDiv1000(value) ==
    IF py = 2 THEN <<value \div 1000, 0>> ELSE <<value \div 1000, value % 1000>>

\* fix_result of distinct
fix_result(field, value) ==
    CASE field = "infos.coordinates" -> ParseCoords(value)
      [] field \in {"starttime", "endtime"} -> all2datetime(PyDiv1000(value))
      [] OTHER -> value

\* DB.flt_and(*args): reduce(cls._flt_and, args)
RECURSIVE flt_and(_)
flt_and(args) ==
    IF Len(args) = 1 THEN args[1]
    ELSE flt_and(<<_flt_and(args[1], args[2])>> \o SubSeq(args, 3, Len(args)))

\* the flt the generator works with, from the flt it was given
DistinctFlt(field, flt) ==
    LET f == IF flt.kind = "none" THEN flt_empty ELSE flt.q
    IN IF field = "infos.coordinates"
       THEN flt_and(<<f, searchhaslocation(FALSE).q>>)
       ELSE f

GetlocationsFlt(flt) == flt_and(<<QAnd(flt.q, searchhaslocation(FALSE).q)>>)

\* the engine's answer to one page request
Response(after, size) ==
    LET hi == Min(after + size, nkeys)
        some == after + 1 <= hi
    IN [lo |-> after + 1, hi |-> hi,
        has_after |-> some /\ (policy = "always" \/ hi < nkeys),
        after_key |-> IF some THEN hi ELSE 0]

\* mutant: the after_key is not carried into the next request
NextQuery_Same(q, r) == q

\* query["after"] = result["aggregations"]["values"]["after_key"]
NextQuery(q, r) == [q EXCEPT !.after = r.after_key]

\* what is yielded for bucket i
Yield(i) ==
    IF acall.fn = "distinct"
    THEN fix_result(acall.field, RawKey(acall.field, i))
    ELSE [_id |-> ParseCoords(RawKey("coords", i)), count |-> DocCount(i)]

InitAgg ==
    /\ StoreIdle
    /\ SearchIdle
    /\ MapIdle
    /\ TopIdle
    /\ ClientIdle
    /\ acall \in AggCallsU
    /\ py \in {2, 3}
    /\ nkeys \in KeyCountsU
    /\ policy \in {"always", "more"}
    /\ gpc = "created"
    /\ at = ""
    /\ gflt = MatchAll
    /\ query = [size |-> 0, after |-> 0]
    /\ result = NoResult
    /\ bi = 1
    /\ requests = <<>>
    /\ yielded = <<>>

\* the consumer's first next(): the generator runs up to its loop
first_next ==
    /\ gpc = "created"
    /\ gflt' = IF acall.fn = "distinct" THEN DistinctFlt(acall.field, acall.flt)
               ELSE GetlocationsFlt(acall.flt)
    /\ query' = [size |-> PAGESIZE, after |-> 0]
    /\ gpc' = "running"
    /\ at' = "search"
    /\ UNCHANGED <<acall, py, nkeys, policy, result, bi, requests, yielded>>
    /\ AggOnly

\* a later next(): the generator resumes after its yield
next_value ==
    /\ gpc = "suspended"
    /\ gpc' = "running"
    /\ UNCHANGED <<acall, py, nkeys, policy, at, gflt, query, result, bi, requests, yielded>>
    /\ AggOnly

\* result = self.db_client.search(...)
search_page ==
    /\ gpc = "running" /\ at = "search"
    /\ result' = Response(query.after, query.size)
    /\ bi' = result'.lo
    /\ requests' = Append(requests,
                          [flt |-> gflt, size |-> query.size, after |-> query.after,
                           has_after |-> result'.has_after, after_key |-> result'.after_key])
    /\ at' = "buckets"
    /\ UNCHANGED <<acall, py, nkeys, policy, gpc, gflt, query, yielded>>
    /\ AggOnly

\* for value in buckets: yield ...
yield_value ==
    /\ gpc = "running" /\ at = "buckets"
    /\ bi <= result.hi
    /\ yielded' = Append(yielded, Yield(bi))
    /\ bi' = bi + 1
    /\ gpc' = "suspended"
    /\ UNCHANGED <<acall, py, nkeys, policy, at, gflt, query, result, requests>>
    /\ AggOnly

\* if 'after_key' not in ...: break
last_page ==
    /\ gpc = "running" /\ at = "buckets"
    /\ bi > result.hi
    /\ ~result.has_after
    /\ gpc' = "done"
    /\ UNCHANGED <<acall, py, nkeys, policy, at, gflt, query, result, bi, requests, yielded>>
    /\ AggOnly

\* query["after"] = ...; and around the loop
next_page ==
    /\ gpc = "running" /\ at = "buckets"
    /\ bi > result.hi
    /\ result.has_after
    /\ query' = NextQuery(query, result)
    /\ at' = "search"
    /\ UNCHANGED <<acall, py, nkeys, policy, gpc, gflt, result, bi, requests, yielded>>
    /\ AggOnly

\* the consumer stops pulling values
abandon ==
    /\ gpc = "suspended"
    /\ gpc' = "abandoned"
    /\ UNCHANGED <<acall, py, nkeys, policy, at, gflt, query, result, bi, requests, yielded>>
    /\ AggOnly

NextAgg ==
    \/ first_next
    \/ next_value
    \/ search_page
    \/ yield_value
    \/ last_page
    \/ next_page
    \/ abandon

SpecAgg == InitAgg /\ [][NextAgg]_vars

(***************************************************************************)
(* Claims on distinct and getlocations (SpecAgg)                           *)
(***************************************************************************)
Occurrences(seq, v) == Cardinality({i \in DOMAIN seq : seq[i] = v})

\* C5: consumed to its end, distinct yields every distinct value of the
\* field among the matching documents exactly once, whatever the number of
\* documents per value and of pages.
C5_EachDistinctValueOnce ==
    (gpc = "done" /\ acall.fn = "distinct") =>
        /\ Len(yielded) = nkeys
        /\ Cardinality(Range(yielded)) = nkeys
        /\ Range(yielded) = {FieldValue(acall.field, i) : i \in 1..nkeys}

\* the filter every request is to carry
C6_Filter ==
    LET base == IF acall.flt.kind = "none" THEN MatchAll ELSE acall.flt.q
        loc == QExists("infos.coordinates")
    IN IF acall.fn = "getlocations" \/ acall.field = "infos.coordinates"
       THEN IF base = MatchAll THEN loc ELSE QBool(<<base, loc>>, <<>>)
       ELSE base

C6_Requests ==
    /\ \A i \in DOMAIN requests :
          /\ requests[i].size = PAGESIZE
          /\ requests[i].flt = C6_Filter
          /\ i = 1 => requests[i].after = 0
          /\ i > 1 => /\ requests[i - 1].has_after
                      /\ requests[i].after = requests[i - 1].after_key
    /\ gpc = "done" => (requests # <<>> /\ ~requests[Len(requests)].has_after)

\* C6: the first request carries no after, each later one the after_key of
\* the response before it, all of them size 250 and the same filter; after a
\* response without after_key the sequence ends with no further request; and
\* no request is issued unless the consumer pulls a value.
C6_ContinuationProtocol ==
    /\ []C6_Requests
    /\ [][/\ gpc # "running" => requests' = requests
          /\ gpc \in {"done", "abandoned"} => gpc' = gpc]_vars

\* a second page was asked for after a full first page, and was the last
C6_Witness ==
    /\ gpc = "done"
    /\ Len(requests) = 2
    /\ requests[1].after = 0 /\ requests[1].after_key = PAGESIZE
    /\ requests[2].after = PAGESIZE /\ ~requests[2].has_after
    /\ Len(yielded) = PAGESIZE + 1

(***************************************************************************)
(* Claims on the predicate builders (SpecSearch)                           *)
(***************************************************************************)
Build(c) ==
    CASE c.fn = "searchnonexistent" -> searchnonexistent
      [] c.fn = "searchhost" -> searchhost(c.a, c.neg)
      [] c.fn = "searchhaslocation" -> searchhaslocation(c.neg)
      [] c.fn = "searchcountry" -> searchcountry(c.a, c.neg)
      [] c.fn = "searchasnum" -> searchasnum(c.a, c.neg)
      [] c.fn = "searchasname" -> searchasname(c.a, c.neg)
      [] c.fn = "searchscript" -> searchscript(c.name, c.output, c.values, c.neg)

\* the strings a literal or regular-expression argument accepts
Accepted(a) == IF a.kind = "re" THEN a.pattern ELSE {a.s}

AllScripts(d) == UNION {Range(p.scripts) : p \in Range(d.ports)}

NameSat(c, s) == c.name.kind = "none" \/ s.id \in Accepted(c.name)

OutputSat(c, s) == c.output.kind = "none" \/ s.output \in Accepted(c.output)

ValuesSat(c, s) ==
    LET sub == "ports.scripts." \o
               (IF c.name.kind = "str" THEN ALIASES_TABLE_ELEMS(c.name.s) ELSE "<regexp>")
    IN CASE c.values.kind = "none" -> TRUE
         [] c.values.kind = "query" -> Eval(c.values.q, "ports.scripts", s)
         [] c.values.kind \in {"str", "re"} ->
              Accepted(c.values) \cap FieldValues("ports.scripts", s, sub) # {}
         [] c.values.kind = "dict" ->
              \A i \in DOMAIN c.values.items :
                 Accepted(c.values.items[i][2])
                   \cap FieldValues("ports.scripts", s, sub \o "." \o c.values.items[i][1]) # {}

\* one script entry satisfies everything the call asks for
SingleEntry(c, d) ==
    \E s \in AllScripts(d) : NameSat(c, s) /\ OutputSat(c, s) /\ ValuesSat(c, s)

\* what the positive predicate of a builder means on a document
Holds(c, d) ==
    CASE c.fn = "searchhost" -> d.addr = c.a.s
      [] c.fn = "searchhaslocation" -> d.infos.coordinates # <<>>
      [] c.fn = "searchcountry" ->
            d.infos.country_code \cap (IF c.a.kind = "list" THEN Range(c.a.l) ELSE {c.a.s}) # {}
      [] c.fn = "searchasnum" ->
            d.infos.as_num \cap (IF c.a.kind = "list"
                                 THEN {PyInt(c.a.items[i]) : i \in DOMAIN c.a.items}
                                 ELSE {PyInt(c.a)}) # {}
      [] c.fn = "searchasname" -> d.infos.as_name \cap Accepted(c.a) # {}
      [] c.fn = "searchscript" -> SingleEntry(c, d)

NegBuilders == {"searchhost", "searchcountry", "searchasnum", "searchasname",
                "searchscript", "searchhaslocation"}

Called(fn) == spc = "called" /\ call.fn = fn /\ res.status = "ok"

\* C2: every builder with a neg flag returns the positive predicate when neg
\* is false, and with neg=True a predicate that matches a document exactly
\* when the one built with neg=False does not.
C2_NegIsNegation ==
    (spc = "called" /\ call.fn \in NegBuilders /\ res.status = "ok") =>
        /\ ~call.neg => (Matches(res.q, doc) <=> Holds(call, doc))
        /\ call.neg =>
             (Matches(res.q, doc) <=> ~Matches(Build([call EXCEPT !.neg = FALSE]).q, doc))

\* C4: searchscript with name, output or values matches a host exactly when
\* one single script entry of one port satisfies everything asked for
\* together; with neg=True exactly the hosts with no such entry.
C4_SingleScriptEntry ==
    (Called("searchscript")
       /\ ~(call.name.kind = "none" /\ call.output.kind = "none" /\ call.values.kind = "none")) =>
        (Matches(res.q, doc) <=> (SingleEntry(call, doc) # call.neg))

\* the id condition holds on one entry and the output condition on another
\* one only, and the host is not matched
C4_Witness ==
    /\ Called("searchscript")
    /\ call.name.kind # "none" /\ call.output.kind # "none" /\ ~call.neg
    /\ \E s1, s2 \in AllScripts(doc) :
          /\ NameSat(call, s1) /\ ~OutputSat(call, s1)
          /\ OutputSat(call, s2) /\ ~NameSat(call, s2)
    /\ ~SingleEntry(call, doc)
    /\ ~Matches(res.q, doc)

\* C10: values without name raises TypeError whatever output and neg are and
\* returns no predicate; with no name, output or values the predicate is
\* "some port has some script" (exists ports.scripts in the two nested levels).
C10_ValuesNeedName ==
    (spc = "called" /\ call.fn = "searchscript") =>
        /\ (call.values.kind # "none" /\ call.name.kind = "none") => res.status = "TypeError"
        /\ (call.name.kind = "none" /\ call.output.kind = "none" /\ call.values.kind = "none") =>
              /\ res.status = "ok"
              /\ ~call.neg =>
                    res.q = QNested("ports", QNested("ports.scripts", QExists("ports.scripts")))
              /\ Matches(res.q, doc) <=> ((AllScripts(doc) # {}) # call.neg)

C10_Witness ==
    /\ spc = "called" /\ call.fn = "searchscript"
    /\ call.values.kind # "none" /\ call.name.kind = "none" /\ call.output.kind # "none"
    /\ call.neg
    /\ res.status = "TypeError"

(***************************************************************************)
(* SpecTop: topvalues.  A pseudo-field is given as [base, sep, arg]: the   *)
(* string base + sep + arg, cut where the dispatch of topvalues cuts it    *)
(* ("port:open" is ["port", ":", "open"], "asnum" is ["asnum", "", ""]).   *)
(* A string built or cut by a script or an output processor is a text: the *)
(* sequence of its chunks, a separator being a chunk of its own.           *)
(***************************************************************************)
MaxTopDocs == 2
MaxTop == 2

\* the engine's size of a terms aggregation that names none
DefaultTermsSize == 10

PseudoField(base, sep, arg) == [base |-> base, sep |-> sep, arg |-> arg]

\* field == name
FieldIs(field, name) == field.base = name /\ field.sep = ""
\* field.startswith(base + sep)
FieldStartsWith(field, base, sep) == field.base = base /\ field.sep = sep

\* the characters of a stored string
Text(s) == IF s = "http://x" THEN <<"http", ":", "//x">> ELSE <<s>>

\* str.lower()
Lower(s) == IF s = "Server" THEN "server" ELSE s

\* value.split(sep, maxsplit)
RECURSIVE SplitMax(_, _, _)
SplitMax(s, sep, maxsplit) ==
    IF maxsplit = 0 \/ Len(s) < Len(sep) THEN <<s>>
    ELSE IF \E i \in 1..(Len(s) - Len(sep) + 1) : SubSeq(s, i, i + Len(sep) - 1) = sep
         THEN LET i == CHOOSE j \in 1..(Len(s) - Len(sep) + 1) :
                         /\ SubSeq(s, j, j + Len(sep) - 1) = sep
                         /\ \A k \in 1..(j - 1) : SubSeq(s, k, k + Len(sep) - 1) # sep
              IN <<SubSeq(s, 1, i - 1)>>
                    \o SplitMax(SubSeq(s, i + Len(sep), Len(s)), sep, maxsplit - 1)
         ELSE <<s>>

TermsField(name) == [kind |-> "field", name |-> name, param |-> <<>>]
TermsScript(name, param) == [kind |-> "script", name |-> name, param |-> param]

\* the branches of topvalues: the flt, the terms source, the output
\* processor and whether the aggregation is wrapped in nested aggregations
Dispatch(field, flt0) ==
    LET flt == IF flt0.kind = "none" THEN flt_empty ELSE flt0.q
    IN CASE FieldIs(field, "asnum") ->
              [flt |-> flt_and(<<flt, QExists("infos.as_num")>>),
               terms |-> TermsField("infos.as_num"),
               outputproc |-> "", nested |-> FALSE]
         [] FieldIs(field, "as") ->
              [flt |-> flt_and(<<flt, QExists("infos.as_num")>>),
               terms |-> TermsScript("as", <<>>),
               outputproc |-> "as", nested |-> FALSE]
         [] FieldIs(field, "port") ->
              [flt |-> flt_and(<<flt, QNested("ports", QExists("ports.port"))>>),
               terms |-> TermsScript("port", <<>>),
               outputproc |-> "port", nested |-> FALSE]
         [] FieldStartsWith(field, "port", ":") ->
              LET info == field.arg
                  matchfield == IF info \in {"open", "filtered", "closed"}
                                THEN "state_state" ELSE "service_name"
              IN [flt |-> flt_and(<<flt, QNested("ports",
                                           QMatch("ports." \o matchfield, info))>>),
                  terms |-> TermsScript("portmatch", <<matchfield, info>>),
                  outputproc |-> "port", nested |-> FALSE]
         [] FieldIs(field, "httphdr") ->
              [flt |-> flt_and(<<flt, searchscript(Str("http-headers"), None, None, FALSE).q>>),
               terms |-> TermsScript("httphdr", <<>>),
               outputproc |-> "httphdr", nested |-> FALSE]
         [] FieldStartsWith(field, "httphdr", ".") ->
              [flt |-> flt_and(<<flt, searchscript(Str("http-headers"), None, None, FALSE).q>>),
               terms |-> TermsField("ports.scripts.http-headers." \o field.arg),
               outputproc |-> "", nested |-> TRUE]
         [] FieldStartsWith(field, "httphdr", ":") ->
              LET subfield == Lower(field.arg)
              IN [flt |-> flt_and(<<flt, searchscript(Str("http-headers"), None,
                                           Dict(<<<<"name", Str(subfield)>>>>), FALSE).q>>),
                  terms |-> TermsScript("httphdrname", <<subfield>>),
                  outputproc |-> "", nested |-> FALSE]
         [] OTHER ->
              [flt |-> flt,
               terms |-> TermsField(field.base \o field.sep \o field.arg),
               outputproc |-> "", nested |-> FALSE]

\* body: the terms aggregation gets size = topnbr unless it is wrapped in
\* the nested aggregations, which are sent as built by the branch
Body(field, flt, topnbr) ==
    LET d == Dispatch(field, flt)
    IN [query |-> d.flt, terms |-> d.terms,
        sized |-> ~d.nested, size |-> IF d.nested THEN 0 ELSE topnbr,
        nested |-> d.nested]

\* item.protocol + '/' + item.port
ProtoPort(item) == <<item.protocol, "/">> \o IntToStr(item.port)

\* mutant: the script without its test on the port number
PortScript_NoTest(host) == {ProtoPort(item) : item \in Range(host.ports)}

\* the script of the "port" branch
PortScript(host) ==
    {ProtoPort(item) : item \in {p \in Range(host.ports) : p.port # -1}}

\* the script of the "port:<x>" branches
PortMatchScript(host, matchfield, value) ==
    {ProtoPort(item) :
        item \in {p \in Range(host.ports) :
                     IF matchfield = "state_state" THEN p.state_state = {value}
                     ELSE p.service_name = {value}}}

\* the script of the "as" branch
AsScript(host) ==
    {IntToStr(n) \o <<",", " ">> \o Text(a) :
        n \in host.infos.as_num, a \in host.infos.as_name}

\* the headers the scripts of the httphdr branches go through
Headers(host) ==
    UNION {UNION {Range(script.elems) :
                     script \in {x \in Range(item.scripts) :
                                    x.id = "http-headers" /\ x.key = "http-headers"}} :
              item \in Range(host.ports)}

\* the script of the "httphdr" branch
HttphdrScript(host) == {Text(hdr.name) \o <<":">> \o Text(hdr.value) : hdr \in Headers(host)}

\* the script of the "httphdr:<name>" branch
HttphdrNameScript(host, name) ==
    {Text(hdr.value) : hdr \in {h \in Headers(host) : h.name = name}}

\* the values of the terms source on one host document
HostKeys(terms, host) ==
    IF terms.kind = "field" THEN FieldValues("", host, terms.name)
    ELSE CASE terms.name = "as" -> AsScript(host)
           [] terms.name = "port" -> PortScript(host)
           [] terms.name = "portmatch" ->
                 PortMatchScript(host, terms.param[1], terms.param[2])
           [] terms.name = "httphdr" -> HttphdrScript(host)
           [] terms.name = "httphdrname" -> HttphdrNameScript(host, terms.param[1])

\* the ports.scripts documents of a set of hosts: <<host, port, script>>
ScriptDocs(hosts) ==
    UNION {UNION {{<<h, i, j>> : j \in DOMAIN h.ports[i].scripts} : i \in DOMAIN h.ports} :
              h \in hosts}

\* the buckets of the terms source over the documents matching the query:
\* host documents, or ports.scripts documents under the nested aggregations
Buckets(body, docs) ==
    LET hosts == {d \in docs : Matches(body.query, d)}
    IN IF body.nested
       THEN LET units == ScriptDocs(hosts)
                Keys(u) == FieldValues("ports.scripts", u[1].ports[u[2]].scripts[u[3]],
                                       body.terms.name)
            IN {[key |-> k, doc_count |-> Cardinality({u \in units : k \in Keys(u)})] :
                   k \in UNION {Keys(u) : u \in units}}
       ELSE {[key |-> k,
              doc_count |-> Cardinality({h \in hosts : k \in HostKeys(body.terms, h)})] :
                k \in UNION {HostKeys(body.terms, h) : h \in hosts}}

\* buckets by decreasing doc_count (the order among equal counts is the engine's)
RECURSIVE ByCount(_)
ByCount(B) ==
    IF B = {} THEN <<>>
    ELSE LET b == CHOOSE x \in B : \A y \in B : x.doc_count >= y.doc_count
         IN <<b>> \o ByCount(B \ {b})

\* db_client.search(body=body, ...)["aggregations"]...["buckets"]
Search(body, docs) ==
    LET all == ByCount(Buckets(body, docs))
        size == IF body.sized THEN body.size ELSE DefaultTermsSize
    IN SubSeq(all, 1, Min(size, Len(all)))

\* the output processors of the branches
outputproc(name, value) ==
    CASE name = "as" ->
            LET parts == SplitMax(value, <<",", " ">>, 1)
            IN [i \in DOMAIN parts |-> IF i > 1 THEN parts[i] ELSE StrToInt(parts[i])]
      [] name = "port" ->
            LET parts == SplitMax(value, <<"/">>, 1)
            IN [i \in DOMAIN parts |-> IF i > 1 THEN StrToInt(parts[i]) ELSE parts[i]]
      [] name = "httphdr" -> SplitMax(value, <<":">>, 1)
      [] OTHER -> value

\* {'_id': ..., 'count': res['doc_count']}
Entry(field, flt, bucket) ==
    [_id |-> outputproc(Dispatch(field, flt).outputproc, bucket.key), count |-> bucket.doc_count]

HdrA == MkScript("http-headers", "x", "http-headers", {},
                 <<[name |-> "server", value |-> "nginx"], [name |-> "via", value |-> "proxy"]>>)
HdrB == MkScript("http-headers", "y", "http-headers", {},
                 <<[name |-> "server", value |-> "apache"],
                   [name |-> "location", value |-> "http://x"]>>)
SmbLs == MkScript("smb-ls", "x", "ls", {"vol"}, <<>>)

\* the hosts of the index: with and without infos, ports, scripts, and with
\* the port -1 that carries the host scripts
TopHostsU ==
    {MkHost(1, "1.2.3.4", {}, MkInfos({"FR"}, {15169}, {"GOOGLE"}, <<48, 2>>),
            <<MkPort("tcp", 80, {"open"}, {"http"}, <<HdrA>>),
              MkPort("tcp", -1, {}, {}, <<SmbLs>>)>>),
     MkHost(2, "5.6.7.8", {}, MkInfos({"US"}, {8075}, {"MICROSOFT"}, <<>>),
            <<MkPort("tcp", 80, {"open"}, {"http"}, <<HdrB, SmbLs>>),
              MkPort("udp", 53, {"closed"}, {"domain"}, <<>>)>>),
     MkHost(3, "1.2.3.4", {}, NoInfos, <<>>),
     MkHost(4, "5.6.7.8", {}, MkInfos({"FR"}, {15169}, {"GOOGLE"}, <<48, 2>>),
            <<MkPort("udp", 53, {"open"}, {"domain"}, <<>>)>>),
     MkHost(5, "1.2.3.4", {}, MkInfos({"FR"}, {8075}, {"MICROSOFT"}, <<>>),
            <<MkPort("tcp", -1, {}, {}, <<HdrA>>)>>)}

TopFieldsU ==
    {PseudoField("asnum", "", ""), PseudoField("as", "", ""),
     PseudoField("port", "", ""), PseudoField("port", ":", "open"),
     PseudoField("port", ":", "http"),
     PseudoField("httphdr", "", ""), PseudoField("httphdr", ".", "name"),
     PseudoField("httphdr", ".", "value"), PseudoField("httphdr", ":", "Server"),
     PseudoField("infos.country_code", "", "")}

TopCallsU ==
    {[field |-> f, flt |-> x, topnbr |-> n] :
        f \in TopFieldsU,
        x \in {None, Qry(searchcountry(Str("FR"), FALSE).q)},
        n \in 1..MaxTop}

InitTop ==
    /\ StoreIdle
    /\ SearchIdle
    /\ MapIdle
    /\ AggIdle
    /\ ClientIdle
    /\ tcall \in TopCallsU
    /\ tdocs \in SubsetsUpTo(TopHostsU, MaxTopDocs)
    /\ tbody = NoBody
    /\ tbuckets = <<>>
    /\ tout = <<>>
    /\ tpc = "created"

\* the first next(): the request is built and sent, and the first bucket
\* is yielded (or the generator ends when there is none)
topvalues_first_next ==
    /\ tpc = "created"
    /\ LET body == Body(tcall.field, tcall.flt, tcall.topnbr)
           result_ == Search(body, tdocs)
       IN /\ tbody' = body
          /\ tbuckets' = result_
          /\ IF result_ = <<>>
             THEN tout' = tout /\ tpc' = "done"
             ELSE /\ tout' = <<Entry(tcall.field, tcall.flt, result_[1])>>
                  /\ tpc' = "suspended"
    /\ UNCHANGED <<tcall, tdocs>>
    /\ TopOnly

\* the following next(): the next bucket is yielded, or the loop ends
topvalues_next ==
    /\ tpc = "suspended"
    /\ IF Len(tout) < Len(tbuckets)
       THEN /\ tout' = Append(tout, Entry(tcall.field, tcall.flt, tbuckets[Len(tout) + 1]))
            /\ tpc' = tpc
       ELSE tout' = tout /\ tpc' = "done"
    /\ UNCHANGED <<tcall, tdocs, tbody, tbuckets>>
    /\ TopOnly

NextTop == topvalues_first_next \/ topvalues_next

SpecTop == InitTop /\ [][NextTop]_vars

\* C7: topvalues yields at most topnbr entries for every pseudo-field, the
\* terms aggregation sent to the engine carrying size = topnbr in every branch.
C7_AtMostTopN ==
    (tpc \in {"suspended", "done"}) =>
        /\ tbody.sized /\ tbody.size = tcall.topnbr
        /\ Len(tout) <= tcall.topnbr

\* the port sub-records of the hosts matching the flt of the call
MatchingPorts ==
    UNION {Range(h.ports) :
              h \in {d \in tdocs : Matches(IF tcall.flt.kind = "none" THEN flt_empty
                                           ELSE tcall.flt.q, d)}}

\* C8: topvalues("port") never yields an entry for the port number -1: each
\* yielded value is the (protocol, port) of a port sub-record, with a port
\* other than -1, of a matching host; a host with ports tcp/80 and tcp/-1
\* contributes ("tcp", 80) alone.
C8_NoSentinelPort ==
    (tpc \in {"suspended", "done"} /\ FieldIs(tcall.field, "port")) =>
        /\ \A i \in DOMAIN tout :
              /\ tout[i]._id[2] # -1
              /\ \E p \in MatchingPorts :
                    /\ p.port # -1
                    /\ tout[i]._id = <<Text(p.protocol), p.port>>
        /\ (tpc = "done" /\ \E h \in tdocs :
                               /\ tdocs = {h}
                               /\ tcall.flt.kind = "none"
                               /\ {<<p.protocol, p.port>> : p \in Range(h.ports)}
                                     = {<<"tcp", 80>>, <<"tcp", -1>>}) =>
              {tout[i]._id : i \in DOMAIN tout} = {<<<<"tcp">>, 80>>}

C8_Witness ==
    /\ tpc = "done" /\ FieldIs(tcall.field, "port") /\ tcall.flt.kind = "none"
    /\ \E h \in tdocs :
          /\ tdocs = {h}
          /\ {<<p.protocol, p.port>> : p \in Range(h.ports)} = {<<"tcp", 80>>, <<"tcp", -1>>}
    /\ tout = <<[_id |-> <<<<"tcp">>, 80>>, count |-> 1]>>

(***************************************************************************)
(* SpecClient: the db_client property, read by callers (threads) that      *)
(* share one instance.  The property takes no lock: a caller can be        *)
(* preempted between the attribute read that fails, the construction of    *)
(* the Elasticsearch handle, the assignment and the final attribute read.  *)
(* Handles are numbered in the order of their construction.                *)
(***************************************************************************)
MaxCallers == 2
MaxAccesses == 3

Callers == 1..ncallers

InitClient ==
    /\ StoreIdle
    /\ SearchIdle
    /\ MapIdle
    /\ AggIdle
    /\ TopIdle
    /\ _db_client = 0
    /\ handles = 0
    /\ ncallers \in 1..MaxCallers
    /\ cpc = [c \in 1..ncallers |-> "idle"]
    /\ made = [c \in 1..ncallers |-> 0]
    /\ got = [c \in 1..ncallers |-> <<>>]

\* try: return self._db_client -- or AttributeError when it is not set yet
db_client_try(c) ==
    /\ cpc[c] = "idle"
    /\ Len(got[c]) < MaxAccesses
    /\ IF _db_client # 0
       THEN /\ got' = [got EXCEPT ![c] = Append(@, _db_client)]
            /\ cpc' = cpc
       ELSE /\ cpc' = [cpc EXCEPT ![c] = "except"]
            /\ got' = got
    /\ UNCHANGED <<_db_client, handles, ncallers, made>>
    /\ ClientOnly

\* except AttributeError: Elasticsearch(hosts=..., http_auth=...)
db_client_construct(c) ==
    /\ cpc[c] = "except"
    /\ handles' = handles + 1
    /\ made' = [made EXCEPT ![c] = handles + 1]
    /\ cpc' = [cpc EXCEPT ![c] = "assign"]
    /\ UNCHANGED <<_db_client, ncallers, got>>
    /\ ClientOnly

\* self._db_client = <the handle just constructed>
db_client_assign(c) ==
    /\ cpc[c] = "assign"
    /\ _db_client' = made[c]
    /\ cpc' = [cpc EXCEPT ![c] = "return"]
    /\ UNCHANGED <<handles, ncallers, made, got>>
    /\ ClientOnly

\* return self._db_client
db_client_return(c) ==
    /\ cpc[c] = "return"
    /\ got' = [got EXCEPT ![c] = Append(@, _db_client)]
    /\ cpc' = [cpc EXCEPT ![c] = "idle"]
    /\ UNCHANGED <<_db_client, handles, ncallers, made>>
    /\ ClientOnly

NextClient ==
    \E c \in Callers :
        \/ db_client_try(c)
        \/ db_client_construct(c)
        \/ db_client_assign(c)
        \/ db_client_return(c)

SpecClient == InitClient /\ [][NextClient]_vars

\* the handles the accesses have returned so far
Returned == UNION {Range(got[c]) : c \in Callers}

\* C11: whatever the interleaving of the callers sharing the instance, the
\* handle behind db_client is constructed at most once, and every access of
\* every caller returns that one handle.
C11_ConstructedOnce ==
    /\ handles <= 1
    /\ Cardinality(Returned) <= 1
    /\ \A h \in Returned : h = _db_client

(***************************************************************************)
(* _create_mappings, step by step (SpecMap): what a declaration replaces   *)
(***************************************************************************)
\* the field the next step declares
Declared == IF mpc = "nested" THEN Head(todo) ELSE Head(todo)[2]

\* the dict and key the terminal assignment of a declaration writes to
Target(tree, fld) ==
    LET w == Walk(tree, <<>>, "", SubSeq(fld, 1, Len(fld) - 1))
    IN [loc |-> w.loc, key |-> JoinKey(w.curkey, fld[Len(fld)])]

\* the step is one declaration (one turn of one of the two loops)
DeclarationStep == todo # <<>> /\ todo' = Tail(todo)

\* C12: during _create_mappings no terminal assignment replaces an entry
\* that already exists for its key, and no entry is lost: a properties
\* subtree attached under a nested path stays there through every later
\* declaration, the ("nested", nested_fields) typed list included.
C12_NeverRedeclared ==
    [][DeclarationStep =>
          /\ LET t == Target(mres, Declared)
             IN ~\E e \in mres : e.loc = t.loc /\ e.key = t.key
          /\ \A e \in mres :
                \E f \in mres' : /\ f.loc = e.loc /\ f.key = e.key /\ f.type = e.type
                                 /\ e.props => f.props]_vars

====
